---- MODULE Spec2Model ----
(***************************************************************************)
(* Model of pinterval's scheduling engine (class Interval, interval.ts)    *)
(* and of the helpers built on it (helpers.ts).                            *)
(* One Interval instance, the host timer queue, the promises returned by   *)
(* the work function and by the error handler, and a caller that may call  *)
(* start() and stop() between any two callbacks; or one call of a helper,  *)
(* which owns its Interval and returns a promise.                          *)
(***************************************************************************)
EXTENDS Integers, Sequences, FiniteSets, TLC

(* ------------------------------ bounds -------------------------------- *)
MaxCalls == 2          \* largest number of work invocations
MaxStarts == 2         \* largest number of start() calls that begin a cycle
MaxN == 2              \* largest N of a "false on the N-th invocation" work
MaxTicks == 3          \* largest number of invocations of the func of a helper
MaxCounter == 4        \* largest counter a duration function is called with directly
MaxSteps == 3          \* longest list given to duration.steps

(* -------------------------- program constants -------------------------- *)
ERR_START == "Interval is already running"
ERR_STOP == "Interval is already stoped"
ERR_MISSED_PARAMS == "Parameters are required"
ERR_FUNC_TYPE == "\"func\" must be a function"
ERR_ONERROR_TYPE == "\"onError\" must be a function"
ERR_TIME_TYPE == "\"time\" must be either a number or a function"
DefaultStartMode == "delayed"              \* params.start || 'delayed'
HelperStartMode == "immediate"            \* start: StartMode = 'immediate'
TestTime == 200                           \* the fixed `time` of the unit tests
TestDurationFn(c) == 10 * c               \* the `time` function of the unit tests

NoErr == "none"
WorkErr == "work error"                   \* an Error raised by func
DurErr == "duration error"                \* an Error raised by the time function
HandlerErr == "handler error"             \* an Error raised by onError

ERR_PREDICATES_TYPE == "Expected \"predicates\" to by an array"
ERR_ATTEMPT_LIMIT_EXCEEDED == "Attempt limit exceeded"
NoRes == "-"                              \* resolve was not called
Void == "void"                            \* resolve() called without a value

(* values func / onError may produce; the code only compares them with     *)
(* false (func) and with true (onError), "undefined" is any other value    *)
Val == {"true", "false", "undefined"}

VARIABLES
    given,           \* the params object handed to the constructor, by type
    made,            \* "pending", then "instance" or "failed" (constructor threw)
    helper,          \* the helper that owns the instance, its amount and start
    func,            \* params.func: the behaviour of the work function
    duration,        \* params.time: a number or a function of the counter
    onError,         \* params.onError: absent or the behaviour of the handler
    startMode,       \* params.start || 'delayed'
    counter,         \* __counter
    isRunning,       \* __isRunning
    timers,          \* host timer queue: setTimeout callbacks not yet fired
    pendingWork,     \* promises returned by func, not yet settled
    pendingHandler,  \* promises returned by onError, not yet settled
    outer,           \* the promise returned by the helper
    data,            \* pipeline: the result of the last step
    calls,           \* history: the arguments of the invocations of the predicate
    cycle,           \* history: number of start() calls that passed the guard
    invocations,     \* history: number of invocations of func
    args,            \* history: the counters passed to func since the last start
    handlerCalls,    \* history: number of invocations of onError since the last start
    stoppedBy,       \* history: who cleared __isRunning last
    fresh,           \* history: the cycle began with no timer or promise left over
    last,            \* history: what the last step did
    previous,        \* decorrelatedJitter: `previous` of the instance given as time
    random,          \* what the next Math.random() returns, in thirds
    heap,            \* pipeline: the arrays, by reference: the caller's and the copy
    stepsRef         \* pipeline: the array `steps` of the executor refers to

params == <<given, helper, func, duration, onError>>
fields == <<startMode, counter, isRunning>>
host == <<timers, pendingWork, pendingHandler>>
closure == <<outer, data, heap, stepsRef>>
strategy == <<previous, random>>
history == <<calls, cycle, invocations, args, handlerCalls, stoppedBy, fresh, last>>
vars == <<given, made, helper, func, duration, onError, startMode, counter,
          isRunning, timers, pendingWork, pendingHandler, outer, data, calls,
          cycle, invocations, args, handlerCalls, stoppedBy, fresh, last,
          previous, random, heap, stepsRef>>

(* ------------------------- the instance as a value --------------------- *)
(* The methods below are functions from the instance (and the host queues) *)
(* to the instance after the method; exc is the exception the method       *)
(* leaves with, ret the value it returns, w and h the work and handler      *)
(* results the step interpreted, err the error that reached __handleError  *)
(* harg the error onError was invoked with, hcaught the error that reached *)
(* the catch of the promise of onError, pred the value the predicate of a  *)
(* helper gave to the await of func.                                       *)
Cur ==
    [made |-> made, startMode |-> startMode,
     counter |-> counter, isRunning |-> isRunning, timers |-> timers,
     pendingWork |-> pendingWork, pendingHandler |-> pendingHandler,
     cycle |-> cycle, invocations |-> invocations, args |-> args,
     handlerCalls |-> handlerCalls, fresh |-> fresh,
     outer |-> outer, data |-> data, calls |-> calls,
     previous |-> previous, random |-> random,
     heap |-> heap, stepsRef |-> stepsRef,
     exc |-> NoErr, ret |-> "none", w |-> "none", err |-> NoErr,
     harg |-> NoErr, h |-> "none", hcaught |-> NoErr, pred |-> "none"]

Caught(s) == [s EXCEPT !.exc = NoErr]

(* resolve(v) / reject(e) of the promise a helper returns: only the first   *)
(* call settles it; settled counts the calls                                *)
settle(o, st, v) ==
    IF o.state = "pending"
    THEN [state |-> st, value |-> v, settled |-> o.settled + 1]
    ELSE [o EXCEPT !.settled = @ + 1]

(* params.time: a number, or a function (of the tests: one that returns a   *)
(* number or throws at some counter; or a duration strategy)                *)
Duration(k, t) ==
    [kind |-> k, throwsAt |-> t, strategy |-> "none", initial |-> 0, max |-> 0,
     steps |-> <<>>]

(* an optional numeric argument that was not passed                         *)
NoMax == -1
(* no number                                                                *)
NoNum == -1

(* Math.pow(2, n) for the counters of the engine                            *)
RECURSIVE pow2(_)
pow2(n) == IF n <= 0 THEN 1 ELSE 2 * pow2(n - 1)

(* duration.exponential(initial, max)(counter); `max ?` is false for an    *)
(* absent max and for 0                                                     *)
exponential(initial, max, c) ==
    LET d == initial * pow2(c)
    IN  IF max # NoMax /\ max # 0 THEN (IF d < max THEN d ELSE max) ELSE d

(* [...durations].sort((a, b) => b.threshold - a.threshold): the sort is   *)
(* stable, a pair goes behind the pairs of the same threshold listed       *)
(* before it                                                                *)
RECURSIVE insertByThreshold(_, _)
insertByThreshold(x, sorted) ==
    IF sorted = <<>> THEN <<x>>
    ELSE IF Head(sorted).threshold >= x.threshold
    THEN <<Head(sorted)>> \o insertByThreshold(x, Tail(sorted))
    ELSE <<x>> \o sorted

RECURSIVE sortDescending(_)
sortDescending(list) ==
    IF list = <<>> THEN <<>>
    ELSE insertByThreshold(list[Len(list)],
                           sortDescending(SubSeq(list, 1, Len(list) - 1)))

(* mutant of steps: below every threshold the duration is that of the pair *)
(* with the lowest threshold                                                *)
stepsLowestFallback(durations, c) ==
    LET sorted == sortDescending(durations)
        defaultDuration == sorted[Len(sorted)].duration
        found == {i \in 1..Len(sorted) : c >= sorted[i].threshold}
    IN  IF found = {} THEN defaultDuration
        ELSE sorted[CHOOSE i \in found : \A j \in found : i <= j].duration

(* duration.steps(durations)(counter): sorted.find gives the first pair of *)
(* the sorted list whose threshold the counter has reached                  *)
steps(durations, c) ==
    LET sorted == sortDescending(durations)
        defaultDuration == durations[1].duration
        found == {i \in 1..Len(sorted) : c >= sorted[i].threshold}
    IN  IF found = {} THEN defaultDuration
        ELSE sorted[CHOOSE i \in found : \A j \in found : i <= j].duration

(* params.time evaluated at counter c                                       *)
DurationThrows(c) == duration.kind = "function" /\ duration.throwsAt = c
DurationValue(c) ==
    IF duration.kind # "function" THEN TestTime
    ELSE IF duration.strategy = "exponential"
    THEN exponential(duration.initial, duration.max, c)
    ELSE IF duration.strategy = "steps"
    THEN steps(duration.steps, c)
    ELSE TestDurationFn(c)

(* Math.random() is one of 0, 1/3, 2/3 when a decorrelatedJitter is in use *)
Thirds == 0..2
RandomDraws == IF duration.strategy = "decorrelatedJitter" THEN Thirds ELSE {0}

(* mutant of decorrelatedJitter: the draw is not capped at max              *)
decorrelatedJitterUncapped(max, prev, r) == r * prev

(* duration.decorrelatedJitter(initial, max)(): Math.random() * previous   *)
(* * 3 with Math.random() = r / 3, capped at max                            *)
decorrelatedJitter(max, prev, r) ==
    LET drawn == r * prev
    IN  IF max < drawn THEN max ELSE drawn

(* a call of the duration function with counter c in state s: the value it *)
(* returns and the `previous` it leaves                                     *)
(* mutant of evaluate: the first call of a cycle (counter 1) starts again   *)
(* from initial                                                             *)
evaluateByCounter(s, c) ==
    IF duration.strategy = "decorrelatedJitter"
    THEN LET next == decorrelatedJitter(duration.max,
                        IF c = 1 THEN duration.initial ELSE s.previous, s.random)
         IN  [val |-> next, previous |-> next]
    ELSE [val |-> DurationValue(c), previous |-> s.previous]

evaluate(s, c) ==
    IF duration.strategy = "decorrelatedJitter"
    THEN LET next == decorrelatedJitter(duration.max, s.previous, s.random)
         IN  [val |-> next, previous |-> next]
    ELSE [val |-> DurationValue(c), previous |-> s.previous]

(* mutant of stop: stop() without its guard                                 *)
stopUnguarded(s) == [s EXCEPT !.isRunning = FALSE, !.ret = "this"]

(* Interval.stop                                                            *)
stop(s) ==
    IF ~s.isRunning
    THEN [s EXCEPT !.exc = ERR_STOP]
    ELSE [s EXCEPT !.isRunning = FALSE, !.ret = "this"]

(* Interval.__enqueue                                                       *)
enqueue(s) ==
    IF ~s.isRunning
    THEN s
    ELSE LET c == s.counter + 1
             s1 == [s EXCEPT !.counter = c]
         IN  IF s.startMode = "delayed" \/ c > 1
             THEN IF DurationThrows(c)
                  THEN [s1 EXCEPT !.exc = DurErr]
                  ELSE [s1 EXCEPT !.timers = @ \cup
                            {[cycle |-> s.cycle, k |-> c,
                              delay |-> evaluate(s, c).val]},
                                  !.previous = evaluate(s, c).previous]
             ELSE [s1 EXCEPT !.timers = @ \cup
                            {[cycle |-> s.cycle, k |-> c, delay |-> 0]}]

NothingPending(s) ==
    s.timers = {} /\ s.pendingWork = {} /\ s.pendingHandler = {}

(* Interval.start                                                           *)
start(s) ==
    IF s.isRunning
    THEN [s EXCEPT !.exc = ERR_START]
    ELSE LET r == enqueue([s EXCEPT !.counter = 0, !.isRunning = TRUE,
                                    !.cycle = @ + 1, !.args = <<>>,
                                    !.handlerCalls = 0,
                                    !.fresh = NothingPending(s)])
         IN  IF r.exc # NoErr THEN r ELSE [r EXCEPT !.ret = "this"]

(* mutant of handlerThen: only a resolved false ends the schedule           *)
handlerThenUnlessFalse(s, res) ==
    IF res = "false" THEN stop(s) ELSE enqueue(s)

(* the callbacks of the promise returned by onError: .then(...).catch(...)  *)
handlerThen(s, res) ==
    IF res = "true" THEN enqueue(s) ELSE stop(s)

handlerCatch(s, e) == stop([s EXCEPT !.hcaught = e])

handlerSettled(s, p, o) ==
    LET s0 == [s EXCEPT !.pendingHandler = @ \ {p}, !.h = o.val]
    IN  IF o.kind = "reject"
        THEN handlerCatch(s0, HandlerErr)
        ELSE LET r == handlerThen(s0, o.val)
             IN  IF r.exc # NoErr THEN handlerCatch(Caught(r), r.exc) ELSE r

(* mutant of invokeHandler: the result of onError is not compared with true *)
(* (any result of a synchronous handler ends the schedule)                  *)
invokeHandlerNoRecover(s, e, h) ==
    LET s1 == [s EXCEPT !.handlerCalls = @ + 1, !.harg = e, !.h = h.val]
    IN  CASE h.kind = "throw" -> [s1 EXCEPT !.exc = HandlerErr]
          [] h.kind = "return" -> stop(s1)
          [] h.kind = "promise" ->
                [s1 EXCEPT !.pendingHandler = @ \cup
                    {[id |-> s.invocations * 10 + s1.handlerCalls, cycle |-> s.cycle]}]
          [] OTHER -> s1

(* Interval.__handleError past its guards: onError(e) is invoked and does h *)
invokeHandler(s, e, h) ==
    LET s1 == [s EXCEPT !.handlerCalls = @ + 1, !.harg = e, !.h = h.val,
                        !.outer = IF onError = "reject"
                                  THEN settle(@, "rejected", e) ELSE @]
    IN  CASE h.kind = "throw" -> [s1 EXCEPT !.exc = HandlerErr]
          [] h.kind = "return" ->
                IF h.val = "true" THEN enqueue(s1) ELSE stop(s1)
          [] h.kind = "promise" ->
                [s1 EXCEPT !.pendingHandler = @ \cup
                    {[id |-> s.invocations * 10 + s1.handlerCalls, cycle |-> s.cycle]}]
          [] OTHER -> s1

(* mutant of handleError: the error is handled although the interval was   *)
(* stopped                                                                  *)
handleErrorUnguarded(s, e, h) ==
    LET s0 == [s EXCEPT !.err = e]
    IN  IF onError = "none"
        THEN stop(s0)
        ELSE invokeHandler(s0, e, h)

(* Interval.__handleError                                                   *)
handleError(s, e, h) ==
    LET s0 == [s EXCEPT !.err = e]
    IN  IF ~s0.isRunning
        THEN s0
        ELSE IF onError = "none"
        THEN stop(s0)
        ELSE invokeHandler(s0, e, h)

(* the callbacks of the promise returned by func: .then(...).catch(...)     *)
workThen(s, result) ==
    IF result # "false" THEN enqueue(s) ELSE stop(s)

(* mutant of workCatch: the error ends the schedule without reaching        *)
(* __handleError                                                            *)
workCatchSilent(s, e, h) == IF s.isRunning THEN stop(s) ELSE s

workCatch(s, e, h) == handleError(s, e, h)

workSettled(s, p, o, h) ==
    LET s0 == [s EXCEPT !.pendingWork = @ \ {p}, !.w = o.val]
    IN  IF o.kind = "reject"
        THEN workCatch(s0, o.err, h)
        ELSE LET r == workThen(s0, o.val)
             IN  IF r.exc # NoErr THEN workCatch(Caught(r), r.exc, h) ELSE r

(* mutant of interpret: any result that is not true ends the schedule       *)
interpretTruthy(s, out) ==
    IF out = "true" THEN enqueue(s) ELSE stop(s)

(* Interval.__call, the synchronous result of func                          *)
interpret(s, out) ==
    IF out # "false" THEN enqueue(s) ELSE stop(s)

(* mutant of slice: `steps` is the caller's array itself                    *)
sliceAlias(h, ref) == [heap |-> h, ref |-> ref]

(* predicates.slice(): a new array with the elements of the array at ref    *)
slice(h, ref) == [heap |-> [h EXCEPT !.steps = h[ref]], ref |-> "steps"]

(* steps.shift(): the array at ref loses its first element, if it has one   *)
shift(h, ref) == [h EXCEPT ![ref] = IF @ = <<>> THEN <<>> ELSE Tail(@)]

(* what func does to the arrays it reaches                                  *)
funcHeap(s) ==
    IF helper.kind = "pipeline" THEN shift(s.heap, s.stepsRef) ELSE s.heap

(* mutant of invoke: the next tick is scheduled as soon as func returns,    *)
(* without waiting for its promise                                          *)
invokeEager(s, w, h) ==
    LET s1 == [s EXCEPT !.invocations = @ + 1,
                        !.args = Append(@, s.counter), !.w = w.val]
    IN  CASE w.kind = "throw" -> handleError(s1, WorkErr, h)
          [] w.kind = "return" -> interpret(s1, w.val)
          [] w.kind = "promise" ->
                enqueue([s1 EXCEPT !.pendingWork = @ \cup
                    {[id |-> s1.invocations, cycle |-> s.cycle,
                      arg |-> s.counter, n |-> Len(s1.args)]}])

(* Interval.__call past its guard: func is invoked and does w               *)
invoke(s, w, h) ==
    LET s1 == [s EXCEPT !.invocations = @ + 1,
                        !.args = Append(@, s.counter), !.w = w.val]
    IN  CASE w.kind = "throw" -> handleError(s1, WorkErr, h)
          [] w.kind = "return" ->
                LET r == interpret(s1, w.val)
                IN  IF r.exc # NoErr THEN handleError(Caught(r), r.exc, h) ELSE r
          [] w.kind = "promise" ->
                [s1 EXCEPT !.pendingWork = @ \cup
                    {[id |-> s1.invocations, cycle |-> s.cycle,
                      arg |-> s.counter, n |-> Len(s1.args)]}]
          [] w.kind = "async" ->
                [s1 EXCEPT !.outer = IF w.res # NoRes
                                     THEN settle(@, "resolved", w.res) ELSE @,
                           !.calls = @ \o w.call,
                           !.heap = funcHeap(s1),
                           !.pendingWork = @ \cup
                    {[id |-> s1.invocations, cycle |-> s.cycle,
                      arg |-> s.counter, n |-> Len(s1.args), will |-> w.will]}]

(* mutant of call: the timer callback without its liveness check           *)
callUnguarded(s, w, h) == invoke(s, w, h)

(* Interval.__call                                                          *)
call(s, w, h) ==
    IF ~s.isRunning THEN s ELSE invoke(s, w, h)

(* --------------------- behaviours of the user functions ---------------- *)
Ret(v) == [kind |-> "return", val |-> v]
Throw == [kind |-> "throw", val |-> "throw"]
Promise == [kind |-> "promise", val |-> "pending"]
Resolve(v) == [kind |-> "resolve", val |-> v, err |-> NoErr]
Reject == [kind |-> "reject", val |-> "reject", err |-> WorkErr]
NoHandler == [kind |-> "none", val |-> "none"]

(* the value the n-th invocation of func (in its cycle) may produce         *)
WorkValues(n) ==
    CASE func.kind = "any" -> Val
      [] func.kind = "neverFails" -> Val
      [] func.kind = "alwaysUndefined" -> {"undefined"}
      [] func.kind = "falseAtN" -> IF n >= func.n THEN {"false"} ELSE Val \ {"false"}
      [] func.kind = "alwaysThrows" -> {}
      [] func.kind = "trueUntilN" -> IF n >= func.n THEN Val \ {"true"} ELSE {"true"}
      [] func.kind = "undefinedUntilN" ->
            IF n >= func.n THEN Val \ {"undefined"} ELSE {"undefined"}

WorkMayRaise == func.kind \in {"any", "alwaysThrows"}

WorkOutcomes(n) ==
    {Ret(v) : v \in WorkValues(n)} \cup {Promise}
        \cup (IF WorkMayRaise THEN {Throw} ELSE {})

WorkSettlements(p) ==
    {Resolve(v) : v \in WorkValues(p.n)}
        \cup (IF WorkMayRaise THEN {Reject} ELSE {})

HandlerValues ==
    CASE onError = "any" -> Val
      [] onError = "true" -> {"true"}
      [] onError = "notTrue" -> Val \ {"true"}
      [] onError = "reject" -> {"undefined"}
      [] onError = "none" -> {}

HandlerOutcomes ==
    IF onError = "none" THEN {NoHandler}
    ELSE IF onError = "reject" THEN {Ret("undefined")}
    ELSE {Ret(v) : v \in HandlerValues} \cup {Promise}
            \cup (IF onError = "any" THEN {Throw} ELSE {})

HandlerSettlements ==
    {Resolve(v) : v \in HandlerValues}
        \cup (IF onError = "any" THEN {Reject} ELSE {})

(* ------------------------------ helpers -------------------------------- *)
(* The func a helper hands to its Interval is an async function: invoked,  *)
(* it runs up to its await (or to its return) and gives the engine a       *)
(* promise; will says what settles that promise, res is the value it       *)
(* passed to resolve, call the invocation of the predicate it made.        *)
Awaiting(a) ==
    [kind |-> "async", val |-> "pending", will |-> "predicate", res |-> NoRes,
     call |-> <<a>>]
Returned(v, r) ==
    [kind |-> "async", val |-> "pending", will |-> v, res |-> r, call |-> <<>>]
PredArg(c, d) == [counter |-> c, data |-> d]

(* poll: func, up to `await predicate()`                                    *)
pollFunc(s) == Awaiting(PredArg(0, "none"))

(* until: func, up to `await predicate()`                                   *)
untilFunc(s) == Awaiting(PredArg(0, "none"))

(* mutant of timesFunc: the promise is resolved at the tick whose counter   *)
(* is the amount                                                            *)
timesFuncInclusive(s) ==
    IF s.counter >= helper.n
    THEN Returned("false", Void)
    ELSE Awaiting(PredArg(s.counter, "none"))

(* times: func, up to `await predicate(counter)`                            *)
timesFunc(s) ==
    IF s.counter > helper.n
    THEN Returned("false", Void)
    ELSE Awaiting(PredArg(s.counter, "none"))

(* mutant of retryFunc: the limit is reached at the tick whose counter is   *)
(* the number of attempts                                                   *)
retryFuncInclusive(s) ==
    IF s.counter >= helper.n
    THEN Returned("limit", NoRes)
    ELSE Awaiting(PredArg(s.counter, "none"))

(* mutant of retryFunc: the counter is never compared with the attempts     *)
retryFuncUnlimited(s) == Awaiting(PredArg(s.counter, "none"))

(* retry: func, up to `await predicate(counter)`                            *)
retryFunc(s) ==
    IF s.counter > helper.n
    THEN Returned("limit", NoRes)
    ELSE Awaiting(PredArg(s.counter, "none"))

(* pipeline: func, up to `await step(data)`; a step is named by its place   *)
(* in the list the caller passed, which is the counter of the call          *)
pipelineFunc(s) ==
    LET left == s.heap[s.stepsRef]
    IN  IF left = <<>>
        THEN Returned("false", s.data)
        ELSE Awaiting(PredArg(Head(left), s.data))

helperFunc(s) ==
    CASE helper.kind = "poll" -> pollFunc(s)
      [] helper.kind = "until" -> untilFunc(s)
      [] helper.kind = "times" -> timesFunc(s)
      [] helper.kind = "retry" -> retryFunc(s)
      [] helper.kind = "pipeline" -> pipelineFunc(s)

(* the rest of func, after the await gave out: the value the promise of    *)
(* func resolves with, the value passed to resolve, the new data           *)
Resumed(v, r, d) ==
    [kind |-> "resolve", val |-> v, err |-> NoErr, res |-> r, data |-> d,
     out |-> "none"]
Failed(e, d) ==
    [kind |-> "reject", val |-> "reject", err |-> e, res |-> NoRes, data |-> d,
     out |-> "none"]

(* mutant of pollResume: poll goes on until the predicate yields true       *)
pollResumeUntilTrue(s, out) ==
    IF out = "true" THEN Resumed("false", Void, s.data)
    ELSE Resumed("true", NoRes, s.data)

pollResume(s, out) ==
    IF out = "true" THEN Resumed("true", NoRes, s.data)
    ELSE Resumed("false", Void, s.data)

(* mutant of untilResume: until goes on until the predicate yields a truthy *)
(* value                                                                    *)
untilResumeTruthy(s, out) ==
    IF out # "true" THEN Resumed("true", NoRes, s.data)
    ELSE Resumed("false", out, s.data)

untilResume(s, out) ==
    IF out = "undefined" THEN Resumed("true", NoRes, s.data)
    ELSE Resumed("false", out, s.data)

timesResume(s, out) == Resumed("true", NoRes, s.data)

(* mutant of retryResume: retry goes on until the predicate yields a truthy *)
(* value                                                                    *)
retryResumeTruthy(s, out) ==
    IF out # "true" THEN Resumed("true", NoRes, s.data)
    ELSE Resumed("false", out, s.data)

retryResume(s, out) ==
    IF out = "undefined" THEN Resumed("true", NoRes, s.data)
    ELSE Resumed("false", out, s.data)

(* mutant of pipelineResume: the result of the step is not kept             *)
pipelineResumeDropped(s, out) == Resumed("true", NoRes, s.data)

pipelineResume(s, out) == Resumed("true", NoRes, out)

helperResume(s, out) ==
    CASE helper.kind = "poll" -> pollResume(s, out)
      [] helper.kind = "until" -> untilResume(s, out)
      [] helper.kind = "times" -> timesResume(s, out)
      [] helper.kind = "retry" -> retryResume(s, out)
      [] helper.kind = "pipeline" -> pipelineResume(s, out)

(* the ways the promise p of a helper's func can settle                     *)
HelperSettlements(s, p) ==
    CASE p.will = "false" -> {Resumed("false", NoRes, s.data)}
      [] p.will = "limit" -> {Failed(ERR_ATTEMPT_LIMIT_EXCEEDED, s.data)}
      [] p.will = "predicate" ->
            {[helperResume(s, v) EXCEPT !.out = v] : v \in WorkValues(p.n)}
                \cup (IF WorkMayRaise THEN {Failed(WorkErr, s.data)} ELSE {})

(* the promise of a helper's func settles: the rest of func has run, then   *)
(* the callbacks of the engine                                              *)
asyncSettled(s, p, o, h) ==
    workSettled([s EXCEPT !.outer = IF o.res # NoRes
                                    THEN settle(@, "resolved", o.res) ELSE @,
                          !.data = o.data, !.pred = o.out],
                p, o, h)

(* ----------------------------- constructor ----------------------------- *)
(* what `typeof` and `== null` tell of a value                              *)
RawTypes == {"undefined", "null", "function", "number", "string", "object"}
StartArgs == {"undefined", "delayed", "immediate"}
NoParams(t) ==
    [params |-> t, func |-> "undefined", time |-> "undefined",
     onError |-> "undefined", start |-> "undefined"]
RawParams ==
    {NoParams(t) : t \in {"undefined", "null"}} \cup
    [params : {"object"}, func : RawTypes, time : RawTypes, onError : RawTypes,
     start : StartArgs]

(* mutant of constructor: an absent start means 'immediate'                 *)
constructorImmediate(p) ==
    LET threw(m) == [exc |-> m, startMode |-> "undefined"]
    IN  IF p.params \in {"undefined", "null"} THEN threw(ERR_MISSED_PARAMS)
        ELSE IF p.func # "function" THEN threw(ERR_FUNC_TYPE)
        ELSE IF p.time \notin {"number", "function"} THEN threw(ERR_TIME_TYPE)
        ELSE IF p.onError \notin {"undefined", "null"} /\ p.onError # "function"
        THEN threw(ERR_ONERROR_TYPE)
        ELSE [exc |-> NoErr,
              startMode |-> IF p.start = "undefined" THEN "immediate"
                            ELSE p.start]

(* mutant of constructor: onError is not validated                          *)
constructorNoOnErrorCheck(p) ==
    LET threw(m) == [exc |-> m, startMode |-> "undefined"]
    IN  IF p.params \in {"undefined", "null"} THEN threw(ERR_MISSED_PARAMS)
        ELSE IF p.func # "function" THEN threw(ERR_FUNC_TYPE)
        ELSE IF p.time \notin {"number", "function"} THEN threw(ERR_TIME_TYPE)
        ELSE [exc |-> NoErr,
              startMode |-> IF p.start = "undefined" THEN DefaultStartMode
                            ELSE p.start]

(* Interval.constructor: the error it throws, or the fields it assigns      *)
(* (__isRunning = false and __counter = 0 besides)                          *)
constructor(p) ==
    LET threw(m) == [exc |-> m, startMode |-> "undefined"]
    IN  IF p.params \in {"undefined", "null"} THEN threw(ERR_MISSED_PARAMS)
        ELSE IF p.func # "function" THEN threw(ERR_FUNC_TYPE)
        ELSE IF p.time \notin {"number", "function"} THEN threw(ERR_TIME_TYPE)
        ELSE IF p.onError \notin {"undefined", "null"} /\ p.onError # "function"
        THEN threw(ERR_ONERROR_TYPE)
        ELSE [exc |-> NoErr,
              startMode |-> IF p.start = "undefined" THEN DefaultStartMode
                            ELSE p.start]

(* ------------------------------- Init ---------------------------------- *)
AnyFunc == [kind |-> "any", n |-> 0]
AlwaysThrows == [kind |-> "alwaysThrows", n |-> 0]
NeverFails == [kind |-> "neverFails", n |-> 0]
AlwaysUndefined == [kind |-> "alwaysUndefined", n |-> 0]
FalseAt(i) == [kind |-> "falseAtN", n |-> i]
TrueUntil(i) == [kind |-> "trueUntilN", n |-> i]
UndefinedUntil(i) == [kind |-> "undefinedUntilN", n |-> i]
NoHelper == [kind |-> "none", n |-> 0, list |-> "none", start |-> "undefined"]
NoPromise == [state |-> "none", value |-> NoRes, settled |-> 0]
PendingPromise == [state |-> "pending", value |-> NoRes, settled |-> 0]

(* the params object of a valid call, by type                               *)
Params(d, h, st) ==
    [params |-> "object", func |-> "function", time |-> d.kind,
     onError |-> IF h = "none" THEN "undefined" ELSE "function", start |-> st]

(* the state in which nothing has run yet                                   *)
(* the arrays when the helper is called: the list of steps the caller       *)
(* passes to pipeline, each step named by its place                         *)
Passed ==
    [predicates |-> IF helper.kind = "pipeline" /\ helper.list = "array"
                    THEN [i \in 1..helper.n |-> i] ELSE <<>>,
     steps |-> <<>>]

(* the executor of the promise of a helper, before it constructs the       *)
(* Interval: pipeline copies the list                                       *)
executor(h) ==
    IF helper.kind = "pipeline"
    THEN [heap |-> slice(h, "predicates").heap,
          stepsRef |-> slice(h, "predicates").ref]
    ELSE [heap |-> h, stepsRef |-> "none"]

Blank ==
    /\ counter = 0
    /\ isRunning = FALSE
    /\ timers = {}
    /\ pendingWork = {}
    /\ pendingHandler = {}
    /\ data = "undefined"
    /\ calls = <<>>
    /\ cycle = 0
    /\ invocations = 0
    /\ args = <<>>
    /\ handlerCalls = 0
    /\ stoppedBy = "none"
    /\ fresh = TRUE
    /\ last = [op |-> "new", w |-> "none", err |-> NoErr, harg |-> NoErr,
               h |-> "none", hcaught |-> NoErr, thrown |-> NoErr, ret |-> "none",
               escaped |-> NoErr, pred |-> "none", arg |-> NoNum, out |-> NoNum]
    /\ previous = duration.initial
    /\ random \in RandomDraws
    /\ heap = IF made = "instance" THEN executor(Passed).heap ELSE Passed
    /\ stepsRef = IF made = "instance" THEN executor(Passed).stepsRef ELSE "none"

(* time: a number, a function that returns, a function that throws at 1, 2 *)
TotalDurations ==
    {Duration("number", 0), Duration("function", 0)}

Durations ==
    TotalDurations \cup {Duration("function", i) : i \in 1..2}

(* time: duration.exponential(initial, max)                                 *)
Exponential(i, m) ==
    [kind |-> "function", throwsAt |-> 0, strategy |-> "exponential",
     initial |-> i, max |-> m, steps |-> <<>>]

(* time: duration.decorrelatedJitter(initial, max)                          *)
DecorrelatedJitter(i, m) ==
    [kind |-> "function", throwsAt |-> 0, strategy |-> "decorrelatedJitter",
     initial |-> i, max |-> m, steps |-> <<>>]

(* time: duration.steps(list)                                               *)
Steps(list) ==
    [kind |-> "function", throwsAt |-> 0, strategy |-> "steps",
     initial |-> 0, max |-> 0, steps |-> list]

(* new Interval(params) by the caller, for the valid params objects in     *)
(* F x D x H with start in S                                                *)
ConstructWith(F, D, H, S) ==
    /\ func \in F
    /\ duration \in D
    /\ onError \in H
    /\ helper = NoHelper
    /\ outer = NoPromise
    /\ given \in {Params(duration, onError, st) : st \in S}
    /\ made = "instance"
    /\ startMode = constructor(given).startMode
    /\ Blank

(* start absent or 'immediate'; an explicit 'delayed' is the same instance  *)
(* as an absent start                                                       *)
Construct(F, D, H) == ConstructWith(F, D, H, {"undefined", "immediate"})

(* a helper in K called with a predicate in F, a duration in D and a start *)
(* argument in S: the state when it has constructed its Interval           *)
HelperCall(K, F, D, S) ==
    /\ func \in F
    /\ duration \in D
    /\ onError = "reject"
    /\ helper \in {[kind |-> k.kind, n |-> k.n,
                     list |-> IF k.kind = "pipeline" THEN "array" ELSE "none",
                     start |-> st] : k \in K, st \in S}
    /\ outer = PendingPromise
    /\ given = Params(duration, onError,
                      IF helper.start = "undefined" THEN HelperStartMode
                      ELSE helper.start)
    /\ made = "instance"
    /\ startMode = constructor(given).startMode
    /\ Blank

(* a helper in K about to be called with a predicate in F, a duration in D *)
(* and a start argument in S                                                *)
HelperArgs(K, F, D, S) ==
    /\ func \in F
    /\ duration \in D
    /\ onError = "reject"
    /\ helper \in {[kind |-> k.kind, n |-> k.n, list |-> k.list, start |-> st] :
                        k \in K, st \in S}
    /\ outer = NoPromise
    /\ given = Params(duration, onError,
                      IF helper.start = "undefined" THEN HelperStartMode
                      ELSE helper.start)
    /\ made = "pending"
    /\ startMode = "undefined"
    /\ Blank

(* any work function, no error handler or any error handler                 *)
Init == Construct({AnyFunc}, Durations, {"none", "any"})

(* ------------------------------ actions -------------------------------- *)
InBounds(r) ==
    /\ r.invocations <= IF helper.kind = "none" THEN MaxCalls ELSE MaxTicks
    /\ r.cycle <= MaxStarts

(* the step ends in state r; an exception r.exc is thrown to the caller of *)
(* a public method, and escapes to the host (uncaught exception, unhandled *)
(* rejection) from a callback                                               *)
Commit(op, r) ==
    /\ InBounds(r)
    /\ counter' = r.counter
    /\ isRunning' = r.isRunning
    /\ timers' = r.timers
    /\ pendingWork' = r.pendingWork
    /\ pendingHandler' = r.pendingHandler
    /\ made' = r.made
    /\ startMode' = r.startMode
    /\ cycle' = r.cycle
    /\ invocations' = r.invocations
    /\ args' = r.args
    /\ handlerCalls' = r.handlerCalls
    /\ stoppedBy' = IF r.isRunning THEN "none"
                    ELSE IF isRunning THEN (IF op = "stop" THEN "caller" ELSE "engine")
                    ELSE stoppedBy
    /\ outer' = r.outer
    /\ data' = r.data
    /\ calls' = r.calls
    /\ fresh' = r.fresh
    /\ last' = [op |-> op, w |-> r.w, err |-> r.err, harg |-> r.harg, h |-> r.h,
                hcaught |-> r.hcaught,
                thrown |-> IF op \in {"start", "stop", "call"} THEN r.exc ELSE NoErr,
                ret |-> IF op \in {"start", "stop"} THEN r.ret ELSE "none",
                escaped |-> IF op \in {"start", "stop", "call"} THEN NoErr ELSE r.exc,
                pred |-> r.pred, arg |-> NoNum, out |-> NoNum]
    /\ previous' = r.previous
    /\ random' \in RandomDraws
    /\ heap' = r.heap
    /\ stepsRef' = r.stepsRef
    /\ UNCHANGED params

(* the caller calls interval.start() on the instance it constructed         *)
Start ==
    /\ helper.kind = "none"
    /\ \E r \in {start(Cur)} : Commit("start", r)

(* the caller calls interval.stop() on the instance it constructed          *)
Stop ==
    /\ helper.kind = "none"
    /\ \E r \in {stop(Cur)} : Commit("stop", r)

(* onError is consulted in a step only if the step reaches its invocation   *)
HandlerChoices(before, after) ==
    IF after.handlerCalls # before.handlerCalls THEN HandlerOutcomes ELSE {NoHandler}

(* what func does when it is invoked in state s                             *)
FuncOutcomes(s) ==
    IF helper.kind = "none" THEN WorkOutcomes(Len(s.args) + 1) ELSE {helperFunc(s)}

(* the host fires a timer: () => this.__call()                              *)
Fire ==
    \E t \in timers :
        LET s == [Cur EXCEPT !.timers = @ \ {t}]
        IN  \E w \in FuncOutcomes(s) :
                \E h \in HandlerChoices(s, call(s, w, Throw)) :
                    Commit("fire", call(s, w, h))

FuncSettlements(s, p) ==
    IF helper.kind = "none" THEN WorkSettlements(p) ELSE HelperSettlements(s, p)

funcSettled(s, p, o, h) ==
    IF helper.kind = "none" THEN workSettled(s, p, o, h) ELSE asyncSettled(s, p, o, h)

(* a promise returned by func settles and its callbacks run                 *)
SettleWork ==
    \E p \in pendingWork :
        \E o \in FuncSettlements(Cur, p) :
            \E h \in HandlerChoices(Cur, funcSettled(Cur, p, o, Throw)) :
                Commit("settleWork", funcSettled(Cur, p, o, h))

(* a promise returned by onError settles and its callbacks run              *)
SettleHandler ==
    \E p \in pendingHandler :
        \E o \in HandlerSettlements :
            Commit("settleHandler", handlerSettled(Cur, p, o))

Next == Start \/ Stop \/ Fire \/ SettleWork \/ SettleHandler

Spec == Init /\ [][Next]_vars

(* the helper calls interval.start() in the executor of the promise it      *)
(* returns: what start() throws rejects that promise                        *)
Begin ==
    /\ helper.kind # "none"
    /\ cycle = 0
    /\ \E r \in {start(Cur)} :
            Commit("begin",
                   IF r.exc # NoErr
                   THEN [Caught(r) EXCEPT !.outer = settle(@, "rejected", r.exc)]
                   ELSE r)

(* mutant of helperCall: the TypeError of pipeline is delivered as a        *)
(* rejection of the promise it returns                                      *)
helperCallRejects(s) ==
    LET i == constructor(given)
    IN  IF helper.kind = "pipeline" /\ helper.list # "array"
        THEN [s EXCEPT !.outer = settle(PendingPromise, "rejected",
                                        ERR_PREDICATES_TYPE),
                       !.made = "none"]
        ELSE IF \/ helper.kind = "pipeline" /\ helper.n = 0
                \/ helper.kind = "times" /\ helper.n < 0
        THEN [s EXCEPT !.outer = settle(PendingPromise, "resolved", Void),
                       !.made = "none"]
        ELSE IF i.exc # NoErr
        THEN [s EXCEPT !.outer = settle(PendingPromise, "rejected", i.exc),
                       !.made = "failed"]
        ELSE LET r == start([s EXCEPT !.outer = PendingPromise,
                                      !.made = "instance",
                                      !.startMode = i.startMode,
                                      !.heap = executor(s.heap).heap,
                                      !.stepsRef = executor(s.heap).stepsRef])
             IN  IF r.exc # NoErr
                 THEN [Caught(r) EXCEPT !.outer = settle(@, "rejected", r.exc)]
                 ELSE [r EXCEPT !.ret = "none"]

(* mutant of helperCall: times resolves at once for an amount of 0 too      *)
helperCallTimesZero(s) ==
    LET i == constructor(given)
    IN  IF helper.kind = "pipeline" /\ helper.list # "array"
        THEN [s EXCEPT !.exc = ERR_PREDICATES_TYPE, !.made = "none"]
        ELSE IF \/ helper.kind = "pipeline" /\ helper.n = 0
                \/ helper.kind = "times" /\ helper.n <= 0
        THEN [s EXCEPT !.outer = settle(PendingPromise, "resolved", Void),
                       !.made = "none"]
        ELSE IF i.exc # NoErr
        THEN [s EXCEPT !.outer = settle(PendingPromise, "rejected", i.exc),
                       !.made = "failed"]
        ELSE LET r == start([s EXCEPT !.outer = PendingPromise,
                                      !.made = "instance",
                                      !.startMode = i.startMode,
                                      !.heap = executor(s.heap).heap,
                                      !.stepsRef = executor(s.heap).stepsRef])
             IN  IF r.exc # NoErr
                 THEN [Caught(r) EXCEPT !.outer = settle(@, "rejected", r.exc)]
                 ELSE [r EXCEPT !.ret = "none"]

(* a helper from its call to its return: the checks before the promise,    *)
(* then the executor of the promise, which constructs the Interval and      *)
(* starts it; what the executor throws rejects the promise                  *)
helperCall(s) ==
    LET i == constructor(given)
    IN  IF helper.kind = "pipeline" /\ helper.list # "array"
        THEN [s EXCEPT !.exc = ERR_PREDICATES_TYPE, !.made = "none"]
        ELSE IF \/ helper.kind = "pipeline" /\ helper.n = 0
                \/ helper.kind = "times" /\ helper.n < 0
        THEN [s EXCEPT !.outer = settle(PendingPromise, "resolved", Void),
                       !.made = "none"]
        ELSE IF i.exc # NoErr
        THEN [s EXCEPT !.outer = settle(PendingPromise, "rejected", i.exc),
                       !.made = "failed"]
        ELSE LET r == start([s EXCEPT !.outer = PendingPromise,
                                      !.made = "instance",
                                      !.startMode = i.startMode,
                                      !.heap = executor(s.heap).heap,
                                      !.stepsRef = executor(s.heap).stepsRef])
             IN  IF r.exc # NoErr
                 THEN [Caught(r) EXCEPT !.outer = settle(@, "rejected", r.exc)]
                 ELSE [r EXCEPT !.ret = "none"]

(* the caller calls the helper                                              *)
CallHelper ==
    /\ helper.kind # "none"
    /\ made = "pending"
    /\ \E r \in {helperCall(Cur)} : Commit("call", r)

NextCall == CallHelper \/ Fire \/ SettleWork

(* the duration function given as time is called with a counter, by the    *)
(* caller or by anything else that holds it                                 *)
Evaluate ==
    /\ duration.strategy # "none"
    /\ \E c \in 0..MaxCounter :
            LET e == evaluate(Cur, c)
            IN  /\ last' = [last EXCEPT !.op = "evaluate", !.arg = c,
                                        !.out = e.val]
                /\ previous' = e.previous
    /\ random' \in RandomDraws
    /\ UNCHANGED <<params, made, fields, host, closure, calls, cycle,
                   invocations, args, handlerCalls, stoppedBy, fresh>>

(* the instance of a helper is out of the caller's reach                    *)
NextHelper == Begin \/ Fire \/ SettleWork

(* new Interval(given), for every params object                             *)
New ==
    /\ helper.kind = "none"
    /\ made = "pending"
    /\ LET i == constructor(given)
       IN  /\ made' = IF i.exc = NoErr THEN "instance" ELSE "failed"
           /\ startMode' = i.startMode
           /\ counter' = 0
           /\ isRunning' = FALSE
           /\ last' = [last EXCEPT !.thrown = i.exc]
    /\ UNCHANGED <<params, host, closure, strategy, calls, cycle, invocations, args,
                   handlerCalls, stoppedBy, fresh>>

(* a work function that returns false from its N-th invocation on, no       *)
(* error handler, a duration that does not throw                            *)
InitAutoStop == Construct({FalseAt(i) : i \in 1..MaxN}, TotalDurations, {"none"})

NextNoHandler == Start \/ Stop \/ Fire \/ SettleWork

SpecAutoStop == InitAutoStop /\ [][NextNoHandler]_vars

(* a work function that always throws or rejects, no error handler          *)
InitThrows == Construct({AlwaysThrows}, TotalDurations, {"none"})

SpecThrows == InitThrows /\ [][NextNoHandler]_vars

(* a work function that always fails, an error handler that always answers *)
(* true, time: 200, no start                                                *)
InitRecover ==
    ConstructWith({AlwaysThrows}, {Duration("number", 0)},
                  {"true"}, {"undefined"})

SpecRecover == InitRecover /\ [][Next]_vars

(* the host fires every timer it holds                                      *)
FairSpecRecover == SpecRecover /\ WF_vars(Fire)

(* any work function, an error handler that never answers true, a duration *)
(* that does not throw                                                      *)
InitNoRecover == Construct({AnyFunc}, TotalDurations, {"notTrue"})

SpecNoRecover == InitNoRecover /\ [][Next]_vars

(* any work function, no error handler or any error handler, a duration    *)
(* that does not throw                                                      *)
InitTotal == Construct({AnyFunc}, TotalDurations, {"none", "any"})

SpecTotal == InitTotal /\ [][Next]_vars

(* poll and until, and times, retry and pipeline with 1..MaxN invocations   *)
(* of the predicate (steps) allowed                                         *)
Helpers ==
    {[kind |-> k, n |-> 0] : k \in {"poll", "until"}} \cup
    {[kind |-> k, n |-> i] : k \in {"times", "retry", "pipeline"}, i \in 1..MaxN}

(* an Interval with no error handler, or a helper, with every start         *)
(* argument                                                                 *)
InitStartModes ==
    \/ ConstructWith({AnyFunc}, Durations, {"none"}, StartArgs)
    \/ HelperCall(Helpers, {AnyFunc}, Durations, StartArgs)

NextStartModes == Start \/ Stop \/ Begin \/ Fire \/ SettleWork

SpecStartModes == InitStartModes /\ [][NextStartModes]_vars

(* poll with a predicate that yields anything or fails, or that yields     *)
(* true before its N-th invocation and something else at it                *)
InitPoll ==
    HelperCall({[kind |-> "poll", n |-> 0]},
               {AnyFunc} \cup {TrueUntil(i) : i \in 1..MaxN}, Durations, StartArgs)

SpecPoll == InitPoll /\ [][NextHelper]_vars

(* until with a predicate that yields anything or fails, or that yields     *)
(* undefined before its N-th invocation and a value at it                   *)
InitUntil ==
    HelperCall({[kind |-> "until", n |-> 0]},
               {AnyFunc} \cup {UndefinedUntil(i) : i \in 1..MaxN}, Durations,
               StartArgs)

SpecUntil == InitUntil /\ [][NextHelper]_vars

(* times(predicate, amount, T) with amount in 0..MaxN, a predicate that     *)
(* yields anything and never fails, a duration that does not throw          *)
InitTimes ==
    HelperCall({[kind |-> "times", n |-> i] : i \in 0..MaxN}, {NeverFails},
               TotalDurations, StartArgs)

SpecTimes == InitTimes /\ [][NextHelper]_vars

(* times about to be called with an amount in -1..MaxN, a predicate that   *)
(* yields anything and never fails, a duration that does not throw          *)
InitTimesCall ==
    HelperArgs({[kind |-> "times", n |-> i, list |-> "none"] : i \in -1..MaxN},
               {NeverFails}, TotalDurations, StartArgs)

SpecTimesCall == InitTimesCall /\ [][NextCall]_vars

(* retry(predicate, attempts, T) with attempts in 0..MaxN, a predicate that *)
(* always yields undefined or that yields undefined before its N-th         *)
(* invocation and a value at it, a duration that does not throw             *)
InitRetry ==
    HelperCall({[kind |-> "retry", n |-> i] : i \in 0..MaxN},
               {AlwaysUndefined} \cup {UndefinedUntil(i) : i \in 1..MaxN},
               TotalDurations, StartArgs)

SpecRetry == InitRetry /\ [][NextHelper]_vars

(* retry about to be called with attempts in 0..MaxN, a predicate that     *)
(* yields anything or fails, any duration and any start argument            *)
InitRetryCall ==
    HelperArgs({[kind |-> "retry", n |-> i, list |-> "none"] : i \in 0..MaxN},
               {AnyFunc}, Durations, StartArgs)

SpecRetryCall == InitRetryCall /\ [][NextCall]_vars

(* the host fires every timer it holds, and every invocation of the         *)
(* predicate settles                                                        *)
FairSpecRetryCall == SpecRetryCall /\ WF_vars(Fire) /\ WF_vars(SettleWork)

(* what `typeof` tells of a `predicates` argument that is not an array      *)
NonArrays == {"undefined", "object", "string", "function"}

(* pipeline called with a list of 0..MaxN steps, or with something that is *)
(* not a list; steps that yield anything and never fail, a duration that    *)
(* does not throw                                                           *)
InitPipeline ==
    HelperArgs({[kind |-> "pipeline", n |-> i, list |-> "array"] : i \in 0..MaxN}
                    \cup {[kind |-> "pipeline", n |-> 0, list |-> t] :
                                t \in NonArrays},
               {NeverFails}, TotalDurations, StartArgs)

SpecPipeline == InitPipeline /\ [][NextCall]_vars

(* every helper about to be called with a list of steps (pipeline), a      *)
(* predicate that yields anything or fails, any duration and any start      *)
(* argument                                                                 *)
InitHelpers ==
    HelperArgs({[kind |-> k.kind, n |-> k.n,
                 list |-> IF k.kind = "pipeline" THEN "array" ELSE "none"] :
                    k \in Helpers},
               {AnyFunc}, Durations, StartArgs)

SpecHelpers == InitHelpers /\ [][NextCall]_vars

(* duration.exponential(100) and duration.exponential(100, 500)            *)
Exponentials == {Exponential(100, NoMax), Exponential(100, 500)}

(* an Interval with a work function that does not fail and no error        *)
(* handler, or retry with a predicate that always yields undefined, driven *)
(* by duration.exponential                                                  *)
InitExponential ==
    \/ ConstructWith({NeverFails}, Exponentials, {"none"}, StartArgs)
    \/ HelperArgs({[kind |-> "retry", n |-> MaxTicks, list |-> "none"]},
                  {AlwaysUndefined}, Exponentials, StartArgs)

NextExponential == Start \/ Stop \/ CallHelper \/ Fire \/ SettleWork

SpecExponential == InitExponential /\ [][NextExponential]_vars

(* duration.exponential(initial, max) for small and test values of         *)
(* initial and max, max absent, 0 or positive                               *)
ExponentialArgs ==
    {Exponential(i, m) : i \in {0, 1, 3, 100}, m \in {NoMax, 0, 1, 5, 500}}

(* a duration function made by duration.exponential, called directly       *)
InitExponentialFn ==
    ConstructWith({NeverFails}, ExponentialArgs, {"none"}, {"undefined"})

SpecExponentialFn == InitExponentialFn /\ [][Evaluate]_vars

(* the lists of 1..MaxSteps pairs {threshold, duration}, in any order,     *)
(* thresholds repeated or not                                               *)
Pairs == [threshold : {0, 2, 3}, duration : {100, 500}]
StepLists == UNION {[1..n -> Pairs] : n \in 1..MaxSteps}

(* a duration function made by duration.steps, called directly             *)
InitStepsFn ==
    ConstructWith({NeverFails}, {Steps(l) : l \in StepLists}, {"none"},
                  {"undefined"})

SpecStepsFn == InitStepsFn /\ [][Evaluate]_vars

(* duration.decorrelatedJitter(initial, max) for small and test values     *)
JitterArgs == {DecorrelatedJitter(i, m) : i \in {0, 1, 100}, m \in {0, 2, 500}}

(* a duration function made by duration.decorrelatedJitter, called         *)
(* directly again and again                                                 *)
InitJitterFn ==
    ConstructWith({NeverFails}, JitterArgs, {"none"}, {"undefined"})

SpecJitterFn == InitJitterFn /\ [][Evaluate]_vars

(* an Interval driven by duration.decorrelatedJitter(1, 4), a work         *)
(* function that does not fail, no error handler, every start mode          *)
InitJitter ==
    ConstructWith({NeverFails}, {DecorrelatedJitter(1, 4)}, {"none"}, StartArgs)

(* another Interval that was given the same duration function schedules a  *)
(* tick of its own: __enqueue calls the function with its own counter       *)
Share ==
    /\ duration.strategy = "decorrelatedJitter"
    /\ \E c \in 1..MaxCounter :
            LET e == evaluate(Cur, c)
            IN  /\ last' = [last EXCEPT !.op = "share", !.out = e.val]
                /\ previous' = e.previous
    /\ random' \in RandomDraws
    /\ UNCHANGED <<params, made, fields, host, closure, calls, cycle,
                   invocations, args, handlerCalls, stoppedBy, fresh>>

(* the caller starts the instance when nothing of an earlier cycle is left *)
StartAfresh == NothingPending(Cur) /\ Start

NextJitter == StartAfresh \/ Stop \/ Fire \/ SettleWork \/ Share

SpecJitter == InitJitter /\ [][NextJitter]_vars

(* every params object, before the constructor has run                      *)
InitRaw ==
    /\ given \in RawParams
    /\ made = "pending"
    /\ helper = NoHelper
    /\ func = AnyFunc
    /\ duration = Duration(given.time, 0)
    /\ onError = "none"
    /\ startMode = "undefined"
    /\ outer = NoPromise
    /\ Blank

SpecConstruct == InitRaw /\ [][New]_vars

(* time by type: a number, a function, or something else                    *)
RawDurations == {Duration(t, 0) : t \in RawTypes}

(* new Interval(params) for every params object, or a helper called with   *)
(* a duration of any type                                                   *)
InitConfig ==
    \/ InitRaw
    \/ HelperArgs({[kind |-> k.kind, n |-> k.n,
                    list |-> IF k.kind = "pipeline" THEN "array" ELSE "none"] :
                        k \in Helpers},
                  {AnyFunc}, RawDurations, StartArgs)

NextConfig == New \/ CallHelper \/ Fire \/ SettleWork

SpecConfig == InitConfig /\ [][NextConfig]_vars

(* ---------------------------- C1 --------------------------------------- *)
(* C1: in every reachable state, whatever the interleaving of start(),     *)
(* stop(), timer firings and promise settlements, at most one invocation   *)
(* of work is in flight (invoked and not yet settled).                     *)
C1_AtMostOneInFlight == Cardinality(pendingWork) <= 1

(* ---------------------------- C2 --------------------------------------- *)
(* C2: while isRunning is false no step invokes work, and a timer callback *)
(* that fires then does nothing: no invocation of work or of the handler,  *)
(* no counter change, no new timer, no new promise, isRunning still false. *)
C2_InertWhenStopped ==
    [][ /\ ~isRunning => invocations' = invocations
        /\ (~isRunning /\ last'.op = "fire") =>
                /\ counter' = counter
                /\ timers' \subseteq timers
                /\ pendingWork' = pendingWork
                /\ pendingHandler' = pendingHandler
                /\ handlerCalls' = handlerCalls
                /\ ~isRunning' ]_vars

(* a timer left pending by stop() has fired and invoked nothing             *)
C2_Witness ==
    /\ last.op = "fire"
    /\ last.w = "none"
    /\ stoppedBy = "caller"
    /\ invocations >= 1

(* ---------------------------- C3 --------------------------------------- *)
(* C3: start() throws whenever the instance is running and stop() throws   *)
(* whenever it is not running (before any start(), after a stop(), after   *)
(* an auto-stop or an error stop); a call that does not throw returns the  *)
(* instance.                                                               *)
C3_StartStopGuards ==
    [][ /\ (last'.op = "start" /\ isRunning) =>
                last'.thrown = ERR_START /\ last'.ret = "none"
        /\ (last'.op = "stop" /\ ~isRunning) =>
                last'.thrown = ERR_STOP /\ last'.ret = "none"
        /\ (last'.op \in {"start", "stop"} /\ last'.thrown = NoErr) =>
                last'.ret = "this" ]_vars

(* stop() has thrown on an instance the engine had stopped itself           *)
C3_Witness ==
    /\ last.op = "stop"
    /\ last.thrown = ERR_STOP
    /\ stoppedBy = "engine"

(* ---------------------------- C4 --------------------------------------- *)
(* the step interpreted an error that nothing recovered: no handler, or a  *)
(* handler that did not answer true (answered otherwise, threw, rejected)  *)
Unrecovered(l) ==
    \/ l.err # NoErr /\ onError = "none"
    \/ l.h \in {"false", "undefined", "throw", "reject"}
    \/ l.hcaught # NoErr

(* C4: isRunning is false from construction until the first successful     *)
(* start(); true from every successful start() until the next stop(),      *)
(* auto-stop (work result false) or unrecoverable error; and false from    *)
(* then until the next successful start().                                  *)
C4_IsRunningLifecycle ==
    [][ /\ (~isRunning /\ isRunning') =>
                last'.op = "start" /\ last'.thrown = NoErr
        /\ (isRunning /\ ~isRunning') =>
                last'.op = "stop" \/ last'.w = "false" \/ Unrecovered(last')
        /\ (isRunning /\ last'.op # "start"
                /\ (last'.op = "stop" \/ last'.w = "false" \/ Unrecovered(last'))) =>
                ~isRunning' ]_vars

(* ---------------------------- C5 --------------------------------------- *)
(* C5: with no error handler and a work function that returns false on its *)
(* N-th invocation and a non-false value before, in a cycle that began     *)
(* with nothing left over: work is invoked at most N times, the engine     *)
(* stops itself only at the N-th, and once the N-th result is interpreted  *)
(* isRunning is false and no timer is scheduled.                           *)
C5_AutoStopAtNth ==
    (func.kind = "falseAtN" /\ onError = "none" /\ fresh) =>
        /\ Len(args) <= func.n
        /\ stoppedBy = "engine" => Len(args) = func.n
        /\ (Len(args) = func.n /\ pendingWork = {}) => ~isRunning /\ timers = {}
        /\ (Len(args) < func.n /\ cycle >= 1 /\ stoppedBy # "caller") => isRunning

(* the engine stopped itself on the second invocation of a work with N = 2 *)
C5_Witness ==
    /\ func.kind = "falseAtN"
    /\ func.n = 2
    /\ fresh
    /\ stoppedBy = "engine"
    /\ Len(args) = 2
    /\ last.w = "false"

(* ---------------------------- C6 --------------------------------------- *)
(* C6: in a cycle that is not a restart over something pending, while a    *)
(* promise of work is unsettled no timer exists, it is the only unsettled  *)
(* one, and work has not been invoked since: the next tick is scheduled    *)
(* only by the step that interprets the settled result.                    *)
C6_NoTickWhileUnsettled ==
    (fresh /\ pendingWork # {}) =>
        /\ timers = {}
        /\ Cardinality(pendingWork) = 1
        /\ \A p \in pendingWork : p.cycle = cycle /\ p.n = Len(args)

(* the second invocation of the first cycle is unsettled: the first one    *)
(* settled before the second tick was scheduled                            *)
C6_Witness ==
    /\ cycle = 1
    /\ isRunning
    /\ pendingWork # {}
    /\ Len(args) = 2

(* ---------------------------- C7 --------------------------------------- *)
(* C7: when a promise of work or of the error handler settles while the    *)
(* instance is stopped (stop() came while it was in flight and start() was *)
(* not called again), whatever it settles with: no tick is scheduled, work *)
(* is not invoked, the error handler is not invoked, the counter does not  *)
(* move and isRunning stays false.                                         *)
C7_SettlementAfterStop ==
    [][ (~isRunning /\ last'.op \in {"settleWork", "settleHandler"}) =>
            /\ timers' = timers
            /\ invocations' = invocations
            /\ handlerCalls' = handlerCalls
            /\ pendingHandler' \subseteq pendingHandler
            /\ pendingWork' \subseteq pendingWork
            /\ counter' = counter
            /\ ~isRunning' ]_vars

(* a promise of work was rejected after the caller's stop(), with an error *)
(* handler configured, and the handler was not invoked                     *)
C7_Witness ==
    /\ last.op = "settleWork"
    /\ last.w = "reject"
    /\ last.h = "none"
    /\ onError # "none"
    /\ stoppedBy = "caller"
    /\ ~isRunning

(* ---------------------------- C8 --------------------------------------- *)
(* C8: with a work function that always throws and no error handler, in a  *)
(* cycle that began with nothing left over: work is invoked once, then     *)
(* isRunning is false and no tick is pending, and the error raised by work *)
(* surfaces from the engine to its caller (it is not swallowed).           *)
C8_ErrorSurfaced ==
    (func.kind = "alwaysThrows" /\ onError = "none" /\ fresh) =>
        /\ Len(args) <= 1
        /\ (Len(args) = 1 /\ pendingWork = {}) => ~isRunning /\ timers = {}
        /\ (last.err = WorkErr /\ stoppedBy = "engine") => last.escaped = WorkErr

(* ---------------------------- C9 --------------------------------------- *)
(* C9: with an error handler that answers exactly true (returned or        *)
(* resolved), the step in which the handler answers on a running instance  *)
(* leaves it running and schedules exactly one tick, for the next counter; *)
(* and if the host fires its timers, work is invoked again after each      *)
(* recovered error unless the schedule is stopped first.                   *)
C9_RecoveryContinues ==
    /\ [][ (last'.h = "true" /\ isRunning) =>
                /\ isRunning'
                /\ counter' = counter + 1
                /\ timers' \ timers =
                        {[cycle |-> cycle, k |-> counter',
                          delay |-> DurationValue(counter')]} ]_vars
    /\ \A i \in 0..(MaxCalls - 1) :
            (last.h = "true" /\ isRunning /\ invocations = i)
                ~> (invocations > i \/ ~isRunning)

(* two failing invocations in a row have been recovered                     *)
C9_Witness ==
    /\ onError = "true"
    /\ last.h = "true"
    /\ last.err = WorkErr
    /\ handlerCalls = 2
    /\ Len(args) = 2
    /\ isRunning

C11_HandlerFailureStops ==
    [][ last'.h \in {"throw", "reject"} =>
            ~isRunning' /\ timers' \subseteq timers ]_vars

(* ---------------------------- C12 -------------------------------------- *)
(* C12: in the first cycle (no restart has happened) the k-th invocation   *)
(* of work receives counter k.                                             *)
C12_CounterIsOrdinal ==
    cycle = 1 => \A k \in 1..Len(args) : args[k] = k

(* ---------------------------- C13 -------------------------------------- *)
(* C13: in a cycle begun by start() after a stop(), the k-th invocation of *)
(* work receives counter k, whatever was pending at the stop().            *)
C13_RestartCountsFromOne ==
    cycle >= 2 => \A k \in 1..Len(args) : args[k] = k

(* ---------------------------- C14 -------------------------------------- *)
(* C14: every scheduled timer, created for counter k, has delay 0 if the   *)
(* start mode is immediate and k = 1 and the duration at k otherwise; a    *)
(* start() in immediate mode does not evaluate the duration function (it   *)
(* cannot throw its error); and when a timer fires and work is invoked,    *)
(* work receives the k the timer was created for.                          *)
C14_DelayOfTick ==
    /\ [](\A t \in timers :
            t.delay = IF startMode = "immediate" /\ t.k = 1
                      THEN 0 ELSE DurationValue(t.k))
    /\ []((last.op = "start" /\ startMode = "immediate") => last.thrown # DurErr)
    /\ [][ (last'.op = "fire" /\ invocations' = invocations + 1) =>
                \A t \in timers \ timers' : args'[Len(args')] = t.k ]_vars

(* ---------------------------- C16 -------------------------------------- *)
(* C16: while isRunning is true at most one timer callback is scheduled    *)
(* and not yet fired, and while it is false none is.                       *)
C16_TimersMatchRunning ==
    /\ isRunning => Cardinality(timers) <= 1
    /\ ~isRunning => timers = {}

(* ---------------------------- C17 -------------------------------------- *)
(* C17: a step that fires a timer scheduled in an earlier cycle, or that   *)
(* settles a promise of work created in an earlier cycle, does not invoke  *)
(* work or the error handler, does not change the counter, schedules no    *)
(* tick and does not change isRunning.                                     *)
C17_StaleEventsInert ==
    [][ (\/ \E t \in timers \ timers' : last'.op = "fire" /\ t.cycle < cycle
         \/ \E p \in pendingWork \ pendingWork' :
                last'.op = "settleWork" /\ p.cycle < cycle) =>
            /\ invocations' = invocations
            /\ handlerCalls' = handlerCalls
            /\ counter' = counter
            /\ timers' \subseteq timers
            /\ isRunning' = isRunning ]_vars

(* ---------------------------- C18 -------------------------------------- *)
(* C18: the constructor throws exactly when the params object is null or   *)
(* undefined, func is not a function, time is neither a number nor a       *)
(* function, or onError is neither null nor undefined and not a function;  *)
(* otherwise it gives an instance with isRunning false, counter 0 and      *)
(* nothing scheduled.                                                      *)
C18_ConstructorValidates ==
    made # "pending" =>
        /\ made = "failed" <=>
                \/ given.params \in {"undefined", "null"}
                \/ given.func # "function"
                \/ given.time \notin {"number", "function"}
                \/ given.onError \notin {"undefined", "null", "function"}
        /\ made = "failed" <=> last.thrown # NoErr
        /\ made = "instance" =>
                /\ ~isRunning
                /\ counter = 0
                /\ timers = {} /\ pendingWork = {} /\ pendingHandler = {}
                /\ invocations = 0

(* the constructor threw for an onError that is a string, and for no other  *)
(* reason                                                                   *)
C18_Witness ==
    /\ made = "failed"
    /\ given.params = "object"
    /\ given.func = "function"
    /\ given.time = "number"
    /\ given.onError = "string"
    /\ last.thrown = ERR_ONERROR_TYPE

(* ---------------------------- C15 -------------------------------------- *)
(* C15: an Interval constructed without start is in 'delayed' mode: its    *)
(* start() invokes no work and schedules the first tick with the delay     *)
(* computed for counter 1, and work is invoked only by a timer firing;     *)
(* poll, until, times, retry and pipeline called without start schedule    *)
(* their first tick with delay 0.                                          *)
C15_DefaultStartModes ==
    /\ []((helper.kind = "none" /\ given.start = "undefined") =>
                startMode = "delayed")
    /\ [][ /\ (last'.op = "start" /\ given.start = "undefined"
                    /\ last'.thrown = NoErr) =>
                /\ invocations' = invocations
                /\ timers' \ timers =
                        {[cycle |-> cycle', k |-> 1, delay |-> DurationValue(1)]}
           /\ invocations' # invocations => last'.op = "fire"
           /\ (last'.op = "begin" /\ helper.start = "undefined") =>
                /\ invocations' = invocations
                /\ timers' = {[cycle |-> 1, k |-> 1, delay |-> 0]} ]_vars

(* poll called without a start argument has scheduled its first tick        *)
C15_Witness ==
    /\ helper.kind = "poll"
    /\ helper.start = "undefined"
    /\ last.op = "begin"
    /\ timers = {[cycle |-> 1, k |-> 1, delay |-> 0]}

(* ---------------------------- C19 -------------------------------------- *)
(* C19: when the predicate of poll yields a truthy value the promise of    *)
(* poll is resolved with no value and the engine stops; when it yields a   *)
(* value that is not truthy the engine stays running with the next tick    *)
(* scheduled and the promise pending.                                      *)
C19_PollUntilTruthy ==
    [][ (helper.kind = "poll" /\ last'.pred # "none" /\ last'.err = NoErr) =>
            IF last'.pred = "true"
            THEN outer'.state = "resolved" /\ outer'.value = Void /\ ~isRunning'
            ELSE outer'.state = "pending" /\ isRunning' /\ timers' # {} ]_vars

C21_UntilFirstDefined ==
    /\ [][ (helper.kind = "until" /\ last'.pred # "none") =>
                IF last'.pred = "undefined"
                THEN last'.err = NoErr =>
                        /\ outer'.state = "pending"
                        /\ isRunning'
                        /\ Cardinality(timers') = 1
                ELSE /\ outer'.state = "resolved"
                     /\ outer'.value = last'.pred
                     /\ ~isRunning'
                     /\ timers' = {} ]_vars
    /\ [][ (helper.kind = "until" /\ outer.state # "pending") =>
                calls' = calls ]_vars
    /\ [](helper.kind = "until" => Len(calls) = invocations)
    /\ []((helper.kind = "until" /\ func.kind = "undefinedUntilN") =>
            /\ Len(calls) <= func.n
            /\ outer.state = "resolved" => Len(calls) = func.n
            /\ (Len(calls) = func.n /\ pendingWork = {}) =>
                    outer.state = "resolved" /\ ~isRunning /\ timers = {})

(* until resolved with false at the second invocation of a predicate that   *)
(* yielded undefined at the first                                           *)
C21_Witness ==
    /\ helper.kind = "until"
    /\ func = UndefinedUntil(2)
    /\ Len(calls) = 2
    /\ outer.state = "resolved"
    /\ outer.value = "false"
    /\ ~isRunning
    /\ last.pred = "false"

(* ---------------------------- C22 -------------------------------------- *)
(* C22: times(predicate, amount, T) with amount >= 0 and a predicate that  *)
(* does not fail: the invocations of the predicate so far carry the        *)
(* arguments 1, 2, ... in that order and are never more than amount, no    *)
(* two of them are in flight together, the promise is never rejected, it   *)
(* is resolved (with no value) only after exactly amount invocations, and  *)
(* when nothing is left to run it is resolved and the engine is stopped;   *)
(* with amount = 0 the predicate is never invoked.                         *)
C22_TimesExactly ==
    helper.kind = "times" =>
        /\ Len(calls) <= helper.n
        /\ \A i \in 1..Len(calls) : calls[i].counter = i
        /\ Cardinality({p \in pendingWork : p.will = "predicate"}) <= 1
        /\ Cardinality(pendingWork) <= 1
        /\ outer.state # "rejected"
        /\ outer.state = "resolved" =>
                Len(calls) = helper.n /\ outer.value = Void
        /\ (cycle = 1 /\ timers = {} /\ pendingWork = {}) =>
                outer.state = "resolved" /\ ~isRunning

(* times with amount 2 resolved after the invocations 1 and 2               *)
C22_Witness ==
    /\ helper.kind = "times"
    /\ helper.n = 2
    /\ outer.state = "resolved"
    /\ Len(calls) = 2
    /\ calls[1].counter = 1 /\ calls[2].counter = 2
    /\ ~isRunning
    /\ timers = {} /\ pendingWork = {}

(* ---------------------------- C23 -------------------------------------- *)
(* C23: retry(predicate, attempts, T) with a predicate that yields         *)
(* undefined at every invocation: the invocations so far carry the         *)
(* arguments 1, 2, ... and are never more than attempts, the promise is    *)
(* never resolved, it is rejected only after exactly attempts invocations  *)
(* and then with the error 'Attempt limit exceeded' and the engine         *)
(* stopped, and when nothing is left to run it is rejected.                *)
C23_RetryExhausted ==
    (helper.kind = "retry" /\ func.kind = "alwaysUndefined") =>
        /\ Len(calls) <= helper.n
        /\ \A i \in 1..Len(calls) : calls[i].counter = i
        /\ outer.state # "resolved"
        /\ outer.state = "rejected" =>
                /\ outer.value = ERR_ATTEMPT_LIMIT_EXCEEDED
                /\ Len(calls) = helper.n
                /\ ~isRunning
                /\ timers = {}
        /\ (cycle = 1 /\ timers = {} /\ pendingWork = {}) =>
                outer.state = "rejected"

(* retry with 2 attempts rejected after the invocations 1 and 2            *)
C23_Witness ==
    /\ helper.kind = "retry"
    /\ helper.n = 2
    /\ func.kind = "alwaysUndefined"
    /\ outer.state = "rejected"
    /\ outer.value = ERR_ATTEMPT_LIMIT_EXCEEDED
    /\ Len(calls) = 2
    /\ ~isRunning

C25_PipelineChains ==
    /\ []((helper.kind = "pipeline" /\ helper.list = "array") =>
            /\ Len(calls) <= helper.n
            /\ Len(calls) <= invocations
            /\ \A i \in 1..Len(calls) : calls[i].counter = i
            /\ Len(calls) >= 1 => calls[1].data = "undefined"
            /\ outer.state # "rejected"
            /\ (outer.state = "resolved" /\ helper.n > 0) =>
                    Len(calls) = helper.n /\ outer.value = data
            /\ (cycle = 1 /\ timers = {} /\ pendingWork = {}) =>
                    outer.state = "resolved" /\ ~isRunning
            /\ (helper.n = 0 /\ made # "pending") =>
                    /\ outer.state = "resolved"
                    /\ made = "none"
                    /\ calls = <<>>
                    /\ invocations = 0
                    /\ timers = {}
                    /\ ~isRunning)
    /\ [][ (helper.kind = "pipeline" /\ helper.list = "array") =>
                /\ Len(calls') <= Len(calls) + 1
                /\ Len(calls') = Len(calls) + 1 =>
                        calls'[Len(calls')].data = data
                /\ last'.pred # "none" => data' = last'.pred
                /\ last'.pred = "none" => data' = data ]_vars

(* a pipeline of two steps resolved with false, the result of the second,  *)
(* which was given the result true of the first                            *)
C25_Witness ==
    /\ helper.kind = "pipeline"
    /\ helper.n = 2
    /\ Len(calls) = 2
    /\ calls[1] = PredArg(1, "undefined")
    /\ calls[2] = PredArg(2, "true")
    /\ outer.state = "resolved"
    /\ outer.value = "false"
    /\ ~isRunning

(* ---------------------------- C26 -------------------------------------- *)
(* C26: for poll, until, times, retry and pipeline, the tick at which the  *)
(* predicate (the step) throws or rejects rejects the promise of the       *)
(* helper with that error and leaves the engine stopped with nothing       *)
(* scheduled, and the predicate is not invoked after it.                   *)
C26_PredicateFailureRejects ==
    /\ [][ (helper.kind # "none" /\ last'.op = "settleWork"
                /\ last'.w = "reject"
                /\ \E p \in pendingWork : p.will = "predicate") =>
                /\ outer'.state = "rejected"
                /\ outer'.value = WorkErr
                /\ last'.harg = WorkErr
                /\ ~isRunning'
                /\ timers' = {}
                /\ pendingWork' = {}
                /\ calls' = calls ]_vars
    /\ [][ (helper.kind # "none" /\ outer.state = "rejected"
                /\ outer.value = WorkErr) =>
                calls' = calls /\ outer'.state = "rejected"
                    /\ outer'.value = WorkErr /\ ~isRunning' ]_vars

(* retry with 2 attempts rejected with the error of its predicate at the   *)
(* first attempt                                                            *)
C26_Witness ==
    /\ helper.kind = "retry"
    /\ helper.n = 2
    /\ Len(calls) = 1
    /\ last.op = "settleWork"
    /\ last.w = "reject"
    /\ outer.state = "rejected"
    /\ outer.value = WorkErr
    /\ ~isRunning

(* ---------------------------- C27 -------------------------------------- *)
(* C27: for poll, until, times, retry and pipeline, resolve and reject are *)
(* called at most once in total, once the promise is settled the predicate *)
(* (the steps) is not invoked again, and when the promise is settled and   *)
(* nothing is left to run the engine is stopped.                           *)
C27_SettlesOnce ==
    [][ helper.kind # "none" =>
            /\ outer'.settled <= 1
            /\ outer.state \notin {"none", "pending"} => calls' = calls
            /\ (outer'.state \notin {"none", "pending"}
                    /\ timers' = {} /\ pendingWork' = {}) => ~isRunning' ]_vars

(* ---------------------------- C28 -------------------------------------- *)
(* C28, as the code has it: pipeline called with a `predicates` argument   *)
(* that is not an array throws a TypeError to its caller: it returns no    *)
(* promise, constructs no engine, schedules nothing and invokes no step.   *)
C28_NonArrayThrows ==
    (helper.kind = "pipeline" /\ helper.list # "array" /\ made # "pending") =>
        /\ last.op = "call"
        /\ last.thrown = ERR_PREDICATES_TYPE
        /\ outer = NoPromise
        /\ made = "none"
        /\ calls = <<>>
        /\ invocations = 0
        /\ timers = {}
        /\ ~isRunning

(* pipeline was called with a string and threw                              *)
C28_Witness ==
    /\ helper.kind = "pipeline"
    /\ helper.list = "string"
    /\ made = "none"
    /\ last.op = "call"
    /\ last.thrown = ERR_PREDICATES_TYPE

(* C28, as the spec has it: pipeline called with a `predicates` argument   *)
(* that is not an array returns a promise rejected with a TypeError, with  *)
(* no engine constructed and no step invoked.                              *)
C28_NonArrayRejects ==
    (helper.kind = "pipeline" /\ helper.list # "array" /\ made # "pending") =>
        /\ outer.state = "rejected"
        /\ outer.value = ERR_PREDICATES_TYPE
        /\ last.thrown = NoErr
        /\ made = "none"
        /\ calls = <<>>
        /\ invocations = 0

(* ---------------------------- C29 -------------------------------------- *)
(* C29: a configuration error is thrown by the call that receives the bad  *)
(* configuration: when new Interval(params), or poll, until, times, retry  *)
(* or pipeline called with a duration that is neither a number nor a       *)
(* function, fails to construct its engine, the call has thrown the error, *)
(* no promise was rejected with it and no tick has run.                    *)
C29_ConfigErrorsThrown ==
    made = "failed" =>
        /\ last.thrown # NoErr
        /\ outer.state # "rejected"
        /\ invocations = 0
        /\ timers = {}

(* ---------------------------- C30 -------------------------------------- *)
(* C30: with duration.exponential(initial, max) the wait before the first  *)
(* invocation of work that is waited for is initial, the wait before the   *)
(* next one 2 * initial, then 4 * initial, ..., each capped at max: the    *)
(* j-th timer the engine sets with a delay from the duration function is   *)
(* set for min(initial * 2^(j-1), max).                                    *)
C30_ExponentialDelays ==
    duration.strategy = "exponential" =>
        \A t \in timers :
            LET j == IF startMode = "delayed" THEN t.k ELSE t.k - 1
            IN  j >= 1 =>
                    t.delay = exponential(duration.initial, duration.max, j - 1)

(* ---------------------------- C31 -------------------------------------- *)
(* C31: duration.exponential(initial, max)(counter), with initial >= 0,    *)
(* counter >= 0 and a max >= 0 that is passed, is the smaller of           *)
(* initial * 2^counter and max, and so never above max; when max is not    *)
(* passed it is initial * 2^counter.                                       *)
C31_ExponentialClamped ==
    (duration.strategy = "exponential" /\ last.op = "evaluate") =>
        LET d == duration.initial * 2^(last.arg)
        IN  IF duration.max = NoMax
            THEN last.out = d
            ELSE /\ last.out = IF d < duration.max THEN d ELSE duration.max
                 /\ last.out <= duration.max

C33_JitterBounded ==
    [][ (duration.strategy = "decorrelatedJitter" /\ last'.op = "evaluate") =>
            LET before == IF last.op = "evaluate" THEN last.out
                          ELSE duration.initial
            IN  /\ last'.out >= 0
                /\ last'.out <= duration.max
                /\ last'.out <= 3 * before ]_vars

(* decorrelatedJitter(100, 500) returned 400 and then 500, the cap         *)
C33_Witness ==
    /\ duration = DecorrelatedJitter(100, 500)
    /\ last.op = "evaluate"
    /\ last.out = 500
    /\ previous = 500

(* ---------------------------- C34 -------------------------------------- *)
(* C34: between steps, an instance whose isRunning is true has something   *)
(* pending that can produce the next tick or stop it: a scheduled timer,   *)
(* an unsettled work invocation or an unsettled error-handler invocation.  *)
C34_RunningHasPending ==
    isRunning => (timers # {} \/ pendingWork # {} \/ pendingHandler # {})

(* ---------------------------- C35 -------------------------------------- *)
(* C35: a start() or stop() call that throws leaves the instance as it     *)
(* was: start() on a running instance keeps the counter, schedules no      *)
(* timer and leaves isRunning true; stop() on a stopped instance leaves    *)
(* isRunning false and the counter unchanged; and after a start() that     *)
(* throws for another reason (the duration function throwing while the     *)
(* first delay is computed) isRunning is false.                            *)
C35_ThrowingCallKeepsState ==
    [][ (last'.op \in {"start", "stop"} /\ last'.thrown # NoErr) =>
            /\ last'.thrown = ERR_START =>
                  isRunning /\ isRunning' /\ counter' = counter /\ timers' = timers
            /\ last'.thrown = ERR_STOP =>
                  ~isRunning /\ ~isRunning' /\ counter' = counter
            /\ last'.thrown \notin {ERR_START, ERR_STOP} => ~isRunning' ]_vars

(* ---------------------------- C36 -------------------------------------- *)
(* what an observer of the engine sees of a step's result: the counters    *)
(* func was invoked with, the counter, isRunning, the scheduled timers and *)
(* the number of invocations of onError                                    *)
Observed(r) == <<r.args, r.counter, r.isRunning, r.timers, r.handlerCalls>>

(* the tick in which func does w and its promise, if any, settles with o   *)
(* before anything else happens                                            *)
tickSettled(s, w, o, h) ==
    LET a == call(s, w, h)
    IN  IF a.pendingWork = s.pendingWork THEN a
        ELSE workSettled(a, CHOOSE p \in a.pendingWork \ s.pendingWork : TRUE, o, h)

(* the tick in which func throws and the promise of onError, if any,       *)
(* settles with o before anything else happens                             *)
tickHandled(s, h, o) ==
    LET a == call(s, Throw, h)
    IN  IF a.pendingHandler = s.pendingHandler THEN a
        ELSE handlerSettled(a, CHOOSE p \in a.pendingHandler \ s.pendingHandler : TRUE, o)

(* C36: synchronous and asynchronous outcomes are interpreted identically: *)
(* in every state where a timer is due, func returning v and func          *)
(* returning a promise resolved with v, func throwing and func returning   *)
(* a rejected promise, onError returning r and onError returning a promise *)
(* resolved with r, all lead to the same invocations, counter, timers and  *)
(* running state.                                                           *)
C36_SyncAsyncSame ==
    \A t \in timers :
        LET s == [Cur EXCEPT !.timers = @ \ {t}]
        IN  /\ \A v \in Val : \A h \in HandlerOutcomes :
                Observed(call(s, Ret(v), h)) = Observed(tickSettled(s, Promise, Resolve(v), h))
            /\ \A h \in HandlerOutcomes :
                Observed(call(s, Throw, h)) = Observed(tickSettled(s, Promise, Reject, h))
            /\ \A r \in HandlerValues :
                Observed(call(s, Throw, Ret(r))) = Observed(tickHandled(s, Promise, Resolve(r)))

(* ---------------------------- C37 -------------------------------------- *)
(* C37: times(predicate, amount, T) with amount >= 0 constructs and starts *)
(* an engine and resolves its promise only in tick amount + 1: func has    *)
(* then been invoked amount + 1 times, the last time with the counter      *)
(* amount + 1, and never more; when the last invocation of the predicate   *)
(* has completed (at once, for amount = 0) the promise is still pending    *)
(* and the timer of tick amount + 1 is scheduled; only amount < 0          *)
(* resolves without an engine.                                              *)
C37_TimesResolvesInLastTick ==
    (helper.kind = "times" /\ made # "pending") =>
        /\ made = "none" <=> helper.n < 0
        /\ made = "none" =>
                /\ outer.state = "resolved"
                /\ cycle = 0 /\ invocations = 0 /\ timers = {} /\ ~isRunning
        /\ made = "instance" =>
                /\ invocations <= helper.n + 1
                /\ args = [i \in 1..invocations |-> i]
                /\ outer.state = "resolved" <=> invocations = helper.n + 1
                /\ (Len(calls) = helper.n /\ pendingWork = {}
                        /\ invocations = helper.n) =>
                        /\ outer.state = "pending"
                        /\ \E t \in timers : t.k = helper.n + 1

(* times with amount 0 resolved in its one tick, the predicate not invoked *)
C37_Witness ==
    /\ helper.kind = "times"
    /\ helper.n = 0
    /\ made = "instance"
    /\ outer.state = "resolved"
    /\ invocations = 1
    /\ calls = <<>>

(* ---------------------------- C38 -------------------------------------- *)
(* C38: when timers fire and every invocation of the predicate settles,    *)
(* retry(predicate, attempts, T) with attempts >= 0, once called, always   *)
(* eventually settles its promise, resolved or rejected; the predicate is  *)
(* invoked at most attempts times and the engine ticks at most             *)
(* attempts + 1 times; with attempts = 0 the predicate is never invoked    *)
(* and the promise is never resolved.                                       *)
C38_RetrySettles ==
    /\ [](helper.kind = "retry" =>
            /\ Len(calls) <= helper.n
            /\ invocations <= helper.n + 1
            /\ helper.n = 0 => calls = <<>> /\ outer.state # "resolved")
    /\ (helper.kind = "retry" /\ made # "pending")
            ~> (outer.state \in {"resolved", "rejected"})

(* retry with 0 attempts rejected in its one tick, the predicate not       *)
(* invoked                                                                  *)
C38_Witness ==
    /\ helper.kind = "retry"
    /\ helper.n = 0
    /\ made = "instance"
    /\ invocations = 1
    /\ calls = <<>>
    /\ outer.state = "rejected"
    /\ outer.value = ERR_ATTEMPT_LIMIT_EXCEEDED
    /\ ~isRunning

(* ---------------------------- C39 -------------------------------------- *)
(* C39: pipeline never modifies the caller's array of steps: from the call *)
(* on, while it runs and after its promise settled, the array that was     *)
(* passed has the length and the elements, in their order, it had at the   *)
(* call.                                                                    *)
C39_CallerArrayKept ==
    helper.kind = "pipeline" => heap.predicates = Passed.predicates

(* a pipeline of two steps resolved: its own array was shifted empty, the  *)
(* caller's still lists both steps                                          *)
C39_Witness ==
    /\ helper.kind = "pipeline"
    /\ helper.n = 2
    /\ outer.state = "resolved"
    /\ Len(calls) = 2
    /\ stepsRef = "steps"
    /\ heap.steps = <<>>
    /\ heap.predicates = <<1, 2>>

(* ---------------------------- C40 -------------------------------------- *)
(* C40: the `previous` of a decorrelatedJitter instance depends only on    *)
(* the calls made to it: a call returns the same for every counter; a step *)
(* that does not call it (stop(), a start() or tick that schedules no      *)
(* delay) leaves it as it was, across cycles too; every call, by the       *)
(* engine in any cycle or by another holder of the instance, returns       *)
(* min(max, random * 3 * previous) of the previous it finds and leaves it  *)
(* as the new previous.                                                     *)
C40_PreviousFollowsCalls ==
    /\ [](duration.strategy = "decorrelatedJitter" =>
            \A c \in 0..MaxCounter : evaluate(Cur, c) = evaluate(Cur, 0))
    /\ [][ duration.strategy = "decorrelatedJitter" =>
            LET next == decorrelatedJitter(duration.max, previous, random)
                scheduled == {t \in timers' \ timers :
                                ~(t.k = 1 /\ startMode = "immediate")}
            IN  /\ (scheduled = {} /\ last'.op # "share") => previous' = previous
                /\ \A t \in scheduled : t.delay = next /\ previous' = next
                /\ last'.op = "share" => last'.out = next /\ previous' = next
           ]_vars

(* the first delay of the second cycle, 4, is above 3 * initial: it was    *)
(* drawn from the last delay of the first cycle                             *)
C40_Witness ==
    /\ duration = DecorrelatedJitter(1, 4)
    /\ cycle = 2
    /\ counter = 1
    /\ previous = 4
    /\ \E t \in timers : t.cycle = 2 /\ t.k = 1 /\ t.delay = 4

====
